---- MODULE Spec2Model ----
(***************************************************************************)
(* Model of tools/update_init_file.py: the relevance filter                *)
(* (relevant_attributes, _is_hashable, _is_relevant) and the rewrite of    *)
(* the __all__ declaration of altair/__init__.py (update__all__variable).  *)
(*                                                                         *)
(* Text is modelled character by character: a str is a sequence of code    *)
(* points, so that str.startswith, str.strip, the ordering used by         *)
(* sorted() and the rendering of a list inside an f-string are computed,   *)
(* not assumed.  Python objects are modelled by an identity (a TLA+        *)
(* string) and by the facts the script reads from them: the static         *)
(* attributes _deprecated, __deprecated__ and __file__, the outcome of     *)
(* hash(), and whether the object is a module.                             *)
(***************************************************************************)
EXTENDS Integers, Sequences, FiniteSets, TLC

VARIABLES
    _TYPING_CONSTRUCTS,     \* the module-level exclusion set
    namespace,              \* alt.__dict__ of the process, in iteration order
    arg,                    \* the namespace handed to the last relevant_attributes call
    result,                 \* what that call returned
    exc,                    \* "none" (no call yet), "returned", or the exception raised
    calls,                  \* relevant_attributes calls made so far (capped)
    file,                   \* altair/__init__.py on disk: raw lines, each ending in \n
    lines,                  \* update__all__variable: the stripped lines it read
    first_definition_line,  \* update__all__variable: 0-based index, or None
    last_definition_line,   \* update__all__variable: 0-based index, or None
    new_lines,              \* update__all__variable: what was handed to the formatter
    outcomes,               \* how each update__all__variable run ended, oldest first
    writes,                 \* calls of ruff.write_lint_format made so far
    file_before,            \* the file as it was when the last run started
    file_after_first        \* the file as the first run left it

vars == << _TYPING_CONSTRUCTS, namespace, arg, result, exc, calls, file, lines,
           first_definition_line, last_definition_line, new_lines, outcomes,
           writes, file_before, file_after_first >>

filter_vars == << _TYPING_CONSTRUCTS, arg, result, exc, calls >>

update_vars == << file, lines, first_definition_line, last_definition_line,
                  new_lines, outcomes, writes, file_before, file_after_first >>

----------------------------------------------------------------------------
(* Bounds of the model.                                                    *)

MaxEntries == 2

MaxSortEntries == 3

MaxCalls == 2

MaxLines == 4

MaxRuns == 2

----------------------------------------------------------------------------
(* str: sequences of code points.                                          *)

\* str.startswith(prefix)
startswith(s, prefix) ==
    /\ Len(prefix) <= Len(s)
    /\ SubSeq(s, 1, Len(prefix)) = prefix

RECURSIVE lstrip_newline(_)
lstrip_newline(s) ==
    IF s # << >> /\ Head(s) = 10 THEN lstrip_newline(Tail(s)) ELSE s

RECURSIVE rstrip_newline(_)
rstrip_newline(s) ==
    IF s # << >> /\ s[Len(s)] = 10
    THEN rstrip_newline(SubSeq(s, 1, Len(s) - 1))
    ELSE s

\* line.strip("\n"): every leading and every trailing newline is removed
strip_newline(s) == rstrip_newline(lstrip_newline(s))

\* str.__lt__: the first differing code point decides, then the length
RECURSIVE str_lt(_, _)
str_lt(a, b) ==
    IF b = << >> THEN FALSE
    ELSE IF a = << >> THEN TRUE
    ELSE IF Head(a) # Head(b) THEN Head(a) < Head(b)
    ELSE str_lt(Tail(a), Tail(b))

\* None, where the code holds an index or None
None == -1

\* "_"
STR_UNDERSCORE == << 95 >>

\* "__"
STR_DUNDER == << 95, 95 >>

\* "__all__ ="
STR_ALL_EQ == << 95, 95, 97, 108, 108, 95, 95, 32, 61 >>

\* "]"
STR_CLOSE == << 93 >>

\* "pd"
NAME_pd == << 112, 100 >>

\* "jsonschema"
NAME_jsonschema == << 106, 115, 111, 110, 115, 99, 104, 101, 109, 97 >>

\* "Chart"
NAME_Chart == << 67, 104, 97, 114, 116 >>

\* "_internal"
NAME__internal == << 95, 105, 110, 116, 101, 114, 110, 97, 108 >>

\* "TYPE_CHECKING"
NAME_TYPE_CHECKING == << 84, 89, 80, 69, 95, 67, 72, 69, 67, 75, 73, 78, 71 >>

\* "Ch", "Z", "a", "ab", "_Z"
NAME_Ch == << 67, 104 >>

NAME_Z == << 90 >>

NAME_a == << 97 >>

NAME_ab == << 97, 98 >>

NAME__Z == << 95, 90 >>

----------------------------------------------------------------------------
(* The objects a namespace can bind, and what the script reads from them.  *)

\* str(Path.cwd()): "/w"
cwd == << 47, 119 >>

\* module.__file__ values: "/w/m", "/w2/m", "/u/m"
FILE_inside == << 47, 119, 47, 109 >>

FILE_sibling == << 47, 119, 50, 47, 109 >>

FILE_outside == << 47, 117, 47, 109 >>

\* the literal members of _TYPING_CONSTRUCTS
StaticConstructs ==
    { "te.TypeAlias", "t.TypeVar", "t.cast", "t.overload", "te.runtime_checkable",
      "list", "dict", "tuple", "t.Any", "t.Literal", "t.Union", "t.Iterable",
      "t.Protocol", "te.Protocol", "t.Sequence", "t.IO", "annotations",
      "te.Required", "te.TypedDict", "t.TypedDict", "te.Self", "te.deprecated",
      "te.TypeAliasType" }

\* Objects bound in namespaces:
\*   Chart_class        a class, no deprecation marker
\*   OldChart           an object whose _deprecated is True
\*   deprecated_func    a function decorated with @deprecated (__deprecated__ = "msg")
\*   False, True        the bools; typing.TYPE_CHECKING is False at run time
\*   int_0              the int 0
\*   list_1_2           the list [1, 2]
\*   t.TypeVar          a literal member of _TYPING_CONSTRUCTS
\*   ColorName_alias    a type alias defined in _typing
\*   mod_*              module objects
Values ==
    { "Chart_class", "OldChart", "deprecated_func", "False", "True", "int_0",
      "list_1_2", "t.TypeVar", "ColorName_alias", "mod_pandas", "mod_inside", "mod_sibling",
      "mod_builtin", "mod_namespace_pkg", "mod_deprecated" }

\* typing.TYPE_CHECKING, as imported at line 9
TYPE_CHECKING == "False"

\* getattr_static(obj, "_deprecated", False) is truthy
has_deprecated(obj) == obj \in { "OldChart", "mod_deprecated" }

\* getattr_static(obj, "__deprecated__", False) is truthy
has_dunder_deprecated(obj) == obj \in { "deprecated_func" }

\* hash(obj) raises TypeError
hash_raises(obj) == obj \in { "list_1_2", "typing_dict" }

\* hash(obj), where it does not raise: 0 for False (and 0, "", 0.0), else not 0
hash(obj) == IF obj \in { "False", "int_0" } THEN 0 ELSE 1

\* inspect.ismodule(obj)
ismodule(obj) ==
    obj \in { "mod_pandas", "mod_inside", "mod_sibling", "mod_builtin",
              "mod_namespace_pkg", "mod_deprecated" }

\* getattr_static(obj, "__file__", ""): a str, or None (a namespace package)
file_attr(obj) ==
    CASE obj \in { "mod_inside", "mod_deprecated" } -> [none |-> FALSE, str |-> FILE_inside]
      [] obj = "mod_sibling" -> [none |-> FALSE, str |-> FILE_sibling]
      [] obj = "mod_pandas" -> [none |-> FALSE, str |-> FILE_outside]
      [] obj = "mod_namespace_pkg" -> [none |-> TRUE, str |-> << >>]
      [] OTHER -> [none |-> FALSE, str |-> << >>]

\* altair.vegalite.v5.schema._typing.__dict__: name, value pairs
typing_namespace ==
    { << << 95, 95, 110, 97, 109, 101, 95, 95 >>, "typing_name_str" >>,   \* __name__
      << << 67, 111, 108, 111, 114 >>, "ColorName_alias" >>,             \* Color
      << NAME_TYPE_CHECKING, "False" >>,
      << << 78 >>, "int_0" >>,                                           \* N = 0
      << << 95, 109 >>, "typing_dict" >>,                                \* _m: a dict
      << << 84 >>, "t.TypeVar" >> }                                      \* T

----------------------------------------------------------------------------
(* The relevance filter.                                                   *)

\* variant: no guard, every object is taken to be hashable
_is_hashable_unguarded(obj) == TRUE

\* _is_hashable(obj): bool(hash(obj)), False when hash raises TypeError
_is_hashable(obj) ==
    IF hash_raises(obj) THEN FALSE ELSE hash(obj) # 0

\* variant: the `attr is TYPE_CHECKING` test left out
is_excluded_no_sentinel(attr, name, G) ==
    \/ has_deprecated(attr)
    \/ (_is_hashable(attr) /\ attr \in G)
    \/ name \in { NAME_pd, NAME_jsonschema }
    \/ has_dunder_deprecated(attr)

\* variant: the __deprecated__ test left out
is_excluded_no_dunder_deprecated(attr, name, G) ==
    \/ has_deprecated(attr)
    \/ attr = TYPE_CHECKING
    \/ (_is_hashable(attr) /\ attr \in G)
    \/ name \in { NAME_pd, NAME_jsonschema }

\* the first condition of _is_relevant (lines 120-126); G is the value of the
\* global _TYPING_CONSTRUCTS when the predicate runs
is_excluded(attr, name, G) ==
    \/ has_deprecated(attr)
    \/ attr = TYPE_CHECKING
    \/ (_is_hashable(attr) /\ attr \in G)
    \/ name \in { NAME_pd, NAME_jsonschema }
    \/ has_dunder_deprecated(attr)

\* what _is_relevant(attr, name) raises, "none" when it returns:
\*   TypeError       `attr in _TYPING_CONSTRUCTS` reached with an unhashable attr
\*   AttributeError  None.startswith, for a module whose __file__ is None
_is_relevant_raises(attr, name, G) ==
    IF has_deprecated(attr) \/ attr = TYPE_CHECKING THEN "none"
    ELSE IF _is_hashable(attr) /\ hash_raises(attr) THEN "TypeError"
    ELSE IF is_excluded(attr, name, G) THEN "none"
    ELSE IF ismodule(attr) /\ file_attr(attr).none THEN "AttributeError"
    ELSE "none"

\* _is_relevant(attr, name), where it returns
_is_relevant(attr, name, G) ==
    IF is_excluded(attr, name, G) THEN FALSE
    ELSE IF ismodule(attr)
         THEN /\ ~file_attr(attr).none
              /\ startswith(file_attr(attr).str, cwd)
         ELSE TRUE

\* the values the update at lines 95-101 adds to _TYPING_CONSTRUCTS
typing_additions ==
    { kv[2] : kv \in { e \in typing_namespace :
                         ~startswith(e[1], STR_DUNDER) /\ _is_hashable(e[2]) } }

\* _TYPING_CONSTRUCTS after the update at lines 95-101
updated_constructs(G) == G \cup typing_additions

\* variant: the names are filtered before the update of lines 95-101
filter_constructs_stale(G) == G

\* the _TYPING_CONSTRUCTS the generator of lines 102-106 reads: it is consumed
\* by sorted() at line 107, after the update
filter_constructs(G) == updated_constructs(G)

\* the generator `it` of lines 102-106, in the namespace's iteration order
RECURSIVE generate(_, _)
generate(ns, G) ==
    IF ns = << >> THEN << >>
    ELSE LET name == Head(ns)[1]
             attr == Head(ns)[2]
         IN  (IF ~startswith(name, STR_UNDERSCORE) /\ _is_relevant(attr, name, G)
              THEN << name >> ELSE << >>) \o generate(Tail(ns), G)

\* the first exception the generator raises, "none" when it runs to its end
RECURSIVE generate_raises(_, _)
generate_raises(ns, G) ==
    IF ns = << >> THEN "none"
    ELSE LET name == Head(ns)[1]
             attr == Head(ns)[2]
             e == IF startswith(name, STR_UNDERSCORE) THEN "none"
                  ELSE _is_relevant_raises(attr, name, G)
         IN  IF e # "none" THEN e ELSE generate_raises(Tail(ns), G)

\* insert x into the sorted sequence s, after every element not greater than x
RECURSIVE insert_sorted(_, _)
insert_sorted(x, s) ==
    IF s = << >> THEN << x >>
    ELSE IF str_lt(x, Head(s)) THEN << x >> \o s
    ELSE << Head(s) >> \o insert_sorted(x, Tail(s))

RECURSIVE sort_from(_, _)
sort_from(done, todo) ==
    IF todo = << >> THEN done
    ELSE sort_from(insert_sorted(Head(todo), done), Tail(todo))

\* variant: the names are returned in iteration order
sorted_unsorted(s) == s

\* sorted(it): ascending by str.__lt__, stable
sorted(s) == sort_from(<< >>, s)

\* a call relevant_attributes(ns): the update of the global, then the filter
relevant_attributes(ns) ==
    /\ calls < MaxCalls
    /\ calls' = calls + 1
    /\ arg' = ns
    /\ _TYPING_CONSTRUCTS' = updated_constructs(_TYPING_CONSTRUCTS)
    /\ LET G == filter_constructs(_TYPING_CONSTRUCTS)
           e == generate_raises(ns, G)
       IN  IF e # "none"
           THEN exc' = e /\ result' = << >>
           ELSE exc' = "returned" /\ result' = sorted(generate(ns, G))
    /\ UNCHANGED << namespace, update_vars >>

----------------------------------------------------------------------------
(* Namespaces: name, value pairs with distinct names, in iteration order.  *)

names_of(ns) == { ns[i][1] : i \in DOMAIN ns }

namespaces_over(entries, n) ==
    { ns \in UNION { [1..k -> entries] : k \in 0..n } :
        \A i, j \in DOMAIN ns : i # j => ns[i][1] # ns[j][1] }

FilterNames == { NAME_Chart, NAME_pd, NAME_jsonschema, NAME__internal,
                 NAME_TYPE_CHECKING }

SortNames == { NAME_Chart, NAME_Ch, NAME_Z, NAME_a, NAME_ab, NAME__Z,
               NAME__internal }

FilterNamespaces == namespaces_over(FilterNames \X Values, MaxEntries)

SortNamespaces ==
    namespaces_over(SortNames \X { "Chart_class", "OldChart", "ColorName_alias" },
                    MaxSortEntries)

\* {"Chart": <class>, "_internal": <obj>, "pd": <module>, "TYPE_CHECKING": b}
example_namespace(b) ==
    << << NAME_Chart, "Chart_class" >>, << NAME__internal, "True" >>,
       << NAME_pd, "mod_pandas" >>, << NAME_TYPE_CHECKING, b >> >>

reversed(s) == [i \in 1..Len(s) |-> s[Len(s) + 1 - i]]

\* the namespaces a process passes to relevant_attributes: its module dict,
\* the same entries in another iteration order, an empty dict
call_arguments == { namespace, reversed(namespace), << >> }

\* the process state before any call; the update's variables stay idle
InitIdle ==
    /\ _TYPING_CONSTRUCTS = StaticConstructs
    /\ arg = << >>
    /\ result = << >>
    /\ exc = "none"
    /\ calls = 0
    /\ lines = << >>
    /\ first_definition_line = None
    /\ last_definition_line = None
    /\ new_lines = << >>
    /\ outcomes = << >>
    /\ writes = 0

Init ==
    /\ InitIdle
    /\ namespace \in FilterNamespaces
                     \cup { example_namespace("True"), example_namespace("False") }
    /\ file = << >>
    /\ file_before = << >>
    /\ file_after_first = << >>

InitSort ==
    /\ InitIdle
    /\ namespace \in SortNamespaces
    /\ file = << >>
    /\ file_before = << >>
    /\ file_after_first = << >>

Next == \E ns \in call_arguments : relevant_attributes(ns)

Spec == Init /\ [][Next]_vars

SpecSort == InitSort /\ [][Next]_vars

----------------------------------------------------------------------------
(* update__all__variable: the rewrite of altair/__init__.py.               *)

\* line.startswith("__all__ =")
is_declaration(line) == startswith(line, STR_ALL_EQ)

\* line.startswith("]")
is_closing(line) == startswith(line, STR_CLOSE)

\* variant: the first declaration line is kept as the opening boundary
RECURSIVE scan_from_keep_first(_, _, _)
scan_from_keep_first(ls, idx, first) ==
    IF idx >= Len(ls) THEN [first |-> first, last |-> None]
    ELSE LET line == ls[idx + 1]
         IN  IF is_declaration(line)
             THEN scan_from_keep_first(ls, idx + 1, IF first = None THEN idx ELSE first)
             ELSE IF first # None /\ is_closing(line)
                  THEN [first |-> first, last |-> idx]
                  ELSE scan_from_keep_first(ls, idx + 1, first)

\* the loop of lines 59-64 from index idx on (0-based), with
\* first_definition_line = first on entry
RECURSIVE scan_from(_, _, _)
scan_from(ls, idx, first) ==
    IF idx >= Len(ls) THEN [first |-> first, last |-> None]
    ELSE LET line == ls[idx + 1]
         IN  IF is_declaration(line) THEN scan_from(ls, idx + 1, idx)
             ELSE IF first # None /\ is_closing(line)
                  THEN [first |-> first, last |-> idx]
                  ELSE scan_from(ls, idx + 1, first)

\* variant: the second assertion left out
boundaries_found_first_only(sc) == sc.first # None

\* the assertions of lines 65-66
boundaries_found(sc) == sc.first # None /\ sc.last # None

\* repr of a str: 'name'
repr_str(name) == << 39 >> \o name \o << 39 >>

RECURSIVE join_reprs(_)
join_reprs(names) ==
    IF names = << >> THEN << >>
    ELSE IF Len(names) = 1 THEN repr_str(Head(names))
    ELSE repr_str(Head(names)) \o << 44, 32 >> \o join_reprs(Tail(names))

\* f"__all__ = {names}": the list is rendered by repr, ['a', 'b']
declaration_line(names) ==
    STR_ALL_EQ \o << 32, 91 >> \o join_reprs(names) \o << 93 >>

\* variant: lines[last:] instead of lines[last + 1:]
splice_keep_closing(ls, first, last, decl) ==
    SubSeq(ls, 1, first) \o << decl >> \o SubSeq(ls, last + 1, Len(ls))

\* new_lines of lines 70-74: [*lines[:first], decl, *lines[last + 1:]]
splice(ls, first, last, decl) ==
    SubSeq(ls, 1, first) \o << decl >> \o SubSeq(ls, last + 2, Len(ls))

\* ruff's line length
LINE_LENGTH == 88

\* the items of a one-line list body, split at ", "
RECURSIVE split_items(_, _)
split_items(body, item) ==
    IF body = << >> THEN (IF item = << >> THEN << >> ELSE << item >>)
    ELSE IF startswith(body, << 44, 32 >>)
         THEN << item >> \o split_items(SubSeq(body, 3, Len(body)), << >>)
         ELSE split_items(Tail(body), item \o << Head(body) >>)

\* a line as ruff format leaves it: a one-line `__all__ = [...]` longer than
\* the line length becomes `__all__ = [`, one indented item per line, `]`
format_line(line) ==
    IF /\ startswith(line, STR_ALL_EQ \o << 32, 91 >>)
       /\ line[Len(line)] = 93
       /\ Len(line) > LINE_LENGTH
    THEN LET items == split_items(SubSeq(line, Len(STR_ALL_EQ) + 3, Len(line) - 1),
                                  << >>)
         IN  << STR_ALL_EQ \o << 32, 91 >> >>
             \o [i \in 1..Len(items) |-> << 32, 32, 32, 32 >> \o items[i] \o << 44 >>]
             \o << STR_CLOSE >>
    ELSE << line >>

RECURSIVE format_lines(_)
format_lines(ls) ==
    IF ls = << >> THEN << >> ELSE format_line(Head(ls)) \o format_lines(Tail(ls))

\* ruff.write_lint_format(init_path, new_lines): the file it leaves on disk
write_lint_format(ls) ==
    LET out == format_lines(ls)
    IN  [i \in 1..Len(out) |-> out[i] \o << 10 >>]

\* f.readlines() followed by line.strip("\n") (lines 52-54)
read_lines(f) == [i \in 1..Len(f) |-> strip_newline(f[i])]

update__all__variable ==
    /\ Len(outcomes) < MaxRuns
    /\ file_before' = file
    /\ LET ls == read_lines(file)
           sc == scan_from(ls, 0, None)
           G  == filter_constructs(_TYPING_CONSTRUCTS)
           e  == generate_raises(namespace, G)
           names == sorted(generate(namespace, G))
           nl == splice(ls, sc.first, sc.last, declaration_line(names))
       IN  /\ lines' = ls
           /\ first_definition_line' = sc.first
           /\ last_definition_line' = sc.last
           /\ IF ~boundaries_found(sc)
              THEN /\ outcomes' = Append(outcomes, "AssertionError")
                   /\ UNCHANGED << filter_vars, file, new_lines, writes >>
              ELSE /\ calls' = calls + 1
                   /\ arg' = namespace
                   /\ _TYPING_CONSTRUCTS' = updated_constructs(_TYPING_CONSTRUCTS)
                   /\ IF e # "none"
                      THEN /\ exc' = e
                           /\ result' = << >>
                           /\ outcomes' = Append(outcomes, e)
                           /\ UNCHANGED << file, new_lines, writes >>
                      ELSE /\ exc' = "returned"
                           /\ result' = names
                           /\ new_lines' = nl
                           /\ file' = write_lint_format(nl)
                           /\ writes' = writes + 1
                           /\ outcomes' = Append(outcomes, "ok")
    /\ file_after_first' = IF outcomes = << >> THEN file' ELSE file_after_first
    /\ UNCHANGED namespace

\* the lines a file is made of here
LINE_open == STR_ALL_EQ \o << 32, 91 >>               \* __all__ = [

LINE_empty_list == STR_ALL_EQ \o << 32, 91, 93 >>     \* __all__ = []

LINE_augmented == << 95, 95, 97, 108, 108, 95, 95, 32, 43, 61, 32, 120 >>  \* __all__ += x

LINE_item == << 32, 32, 32, 32, 34, 97, 34, 44 >>     \*     "a",

LINE_close == << 93 >>                                \* ]

LINE_close_comment == << 93, 32, 35 >>                \* ] #

LINE_indented_close == << 32, 93 >>                   \*  ]

LINE_other == << 120 >>                               \* x

LineChoices == { LINE_open, LINE_empty_list, LINE_augmented, LINE_item, LINE_close,
                 LINE_close_comment, LINE_indented_close, LINE_other }

FileChoices ==
    UNION { [1..n -> { l \o << 10 >> : l \in LineChoices }] : n \in 0..MaxLines }

\* ten public names, "Chara" .. "Charj", in descending order
long_namespace ==
    [i \in 1..10 |-> << << 67, 104, 97, 114, 107 - i >>, "Chart_class" >>]

\* alt.__dict__ of the updating process: nothing relevant, one relevant name,
\* three relevant names, and a list too long for one line
UpdateNamespaces ==
    { << << NAME__internal, "Chart_class" >>, << NAME_pd, "mod_pandas" >> >>,
      << << NAME_a, "Chart_class" >>, << NAME_Z, "OldChart" >> >>,
      example_namespace("False") \o << << NAME_Ch, "True" >>, << NAME_a, "list_1_2" >> >>,
      long_namespace }

InitUpdate ==
    /\ InitIdle
    /\ namespace \in UpdateNamespaces
    /\ file \in FileChoices
    /\ file_before = file
    /\ file_after_first = file

NextUpdate == update__all__variable

SpecUpdate == InitUpdate /\ [][NextUpdate]_vars

----------------------------------------------------------------------------
(* Properties.                                                             *)

Range(s) == { s[i] : i \in DOMAIN s }

entries_of(ns) == { ns[i] : i \in DOMAIN ns }

Last(s) == s[Len(s)]

is_public(name) == ~startswith(name, STR_UNDERSCORE)

\* a comes strictly before b in code-point order: at the first position where
\* they differ a has the smaller code point, or a is a proper prefix of b
code_point_less(a, b) ==
    \E k \in 1..(Len(a) + 1) :
        /\ k - 1 <= Len(b)
        /\ \A j \in 1..(k - 1) : a[j] = b[j]
        /\ \/ k = Len(a) + 1 /\ Len(b) >= k
           \/ k <= Len(a) /\ k <= Len(b) /\ a[k] < b[k]

\* the path lies inside the working directory: it is the directory itself or
\* continues it with a path separator
path_inside(f) ==
    /\ ~f.none
    /\ startswith(f.str, cwd)
    /\ (Len(f.str) = Len(cwd) \/ f.str[Len(cwd) + 1] = 47)

\* C1: whenever relevant_attributes returns, the list is strictly ascending in
\* code-point order, its elements are exactly the names of the argument that do
\* not start with "_" and that _is_relevant accepts, whatever the iteration
\* order of the argument; a namespace of "_" names only yields the empty list.
C1_SortedExactlyRelevant ==
    exc = "returned" =>
        /\ \A i \in 1..(Len(result) - 1) : code_point_less(result[i], result[i + 1])
        /\ Range(result) =
               { arg[i][1] : i \in { j \in DOMAIN arg :
                     /\ is_public(arg[j][1])
                     /\ _is_relevant(arg[j][2], arg[j][1], _TYPING_CONSTRUCTS) } }
        /\ ((\A i \in DOMAIN arg : ~is_public(arg[i][1])) => result = << >>)

\* three entries iterated as a, Ch (deprecated), Z: the deprecated one is left
\* out and Z is returned before a although it was iterated last
C1_Witness ==
    /\ exc = "returned"
    /\ Len(arg) = 3
    /\ arg[1][1] = NAME_a
    /\ arg[2][1] = NAME_Ch
    /\ arg[2][2] = "OldChart"
    /\ arg[3][1] = NAME_Z
    /\ result = << NAME_Z, NAME_a >>

\* C2: a run on a file in which no line starting with "__all__ =" is followed
\* by a later line starting with "]" ends in an AssertionError, calls the
\* formatter not at all and leaves the file as it was.
C2_AbortBeforeWrite ==
    [][ (LET ls == read_lines(file)
         IN  ~\E i, j \in DOMAIN ls :
                 i < j /\ is_declaration(ls[i]) /\ is_closing(ls[j]))
        => /\ file' = file
           /\ writes' = writes
           /\ outcomes' = Append(outcomes, "AssertionError") ]_vars

\* a run that aborted on a file whose only "]" line precedes the declaration
C2_Witness ==
    /\ outcomes = << "AssertionError" >>
    /\ writes = 0
    /\ file = file_before
    /\ \E i, j \in DOMAIN lines :
           i < j /\ is_closing(lines[i]) /\ is_declaration(lines[j])
    /\ \A i, j \in DOMAIN lines :
           is_declaration(lines[i]) /\ is_closing(lines[j]) => j < i

\* C3: a second run after a successful first run succeeds and leaves the file
\* as the first run left it.
C3_Idempotent ==
    (Len(outcomes) >= 2 /\ outcomes[1] = "ok") =>
        (outcomes[2] = "ok" /\ file = file_after_first)

\* C4 as stated: with TYPE_CHECKING bound to True the result holds Chart and
\* none of _internal, pd, TYPE_CHECKING; entries bound to the sentinel, names
\* starting with "_" and the names pd and jsonschema are never returned.
C4_AsStated ==
    exc = "returned" =>
        /\ entries_of(arg) = entries_of(example_namespace("True")) =>
               /\ NAME_Chart \in Range(result)
               /\ Range(result) \cap { NAME__internal, NAME_pd, NAME_TYPE_CHECKING } = {}
        /\ \A i \in DOMAIN arg :
               (\/ arg[i][2] = TYPE_CHECKING
                \/ ~is_public(arg[i][1])
                \/ arg[i][1] \in { NAME_pd, NAME_jsonschema })
               => arg[i][1] \notin Range(result)

\* C4 amended: the same with TYPE_CHECKING bound to False, the value the
\* sentinel has at run time.
C4_SentinelExample ==
    exc = "returned" =>
        /\ entries_of(arg) = entries_of(example_namespace("False")) =>
               /\ NAME_Chart \in Range(result)
               /\ Range(result) \cap { NAME__internal, NAME_pd, NAME_TYPE_CHECKING } = {}
        /\ \A i \in DOMAIN arg :
               (\/ arg[i][2] = TYPE_CHECKING
                \/ ~is_public(arg[i][1])
                \/ arg[i][1] \in { NAME_pd, NAME_jsonschema })
               => arg[i][1] \notin Range(result)

C4_Witness ==
    /\ exc = "returned"
    /\ entries_of(arg) = entries_of(example_namespace("False"))
    /\ result = << NAME_Chart >>

\* C5: the name of a value whose static _deprecated or __deprecated__ attribute
\* is truthy is never returned, whatever the name and whatever else holds of
\* the value, a module inside the working directory included.
C5_DeprecatedExcluded ==
    exc = "returned" =>
        \A i \in DOMAIN arg :
            (has_deprecated(arg[i][2]) \/ has_dunder_deprecated(arg[i][2]))
            => /\ arg[i][1] \notin Range(result)
               /\ ~_is_relevant(arg[i][2], arg[i][1], _TYPING_CONSTRUCTS)

\* a deprecated module of the project and a @deprecated function, next to
\* nothing else: both are left out
C5_Witness ==
    /\ exc = "returned"
    /\ Len(arg) = 2
    /\ arg[1] = << NAME_Chart, "mod_deprecated" >>
    /\ arg[2] = << NAME_TYPE_CHECKING, "deprecated_func" >>
    /\ path_inside(file_attr("mod_deprecated"))
    /\ result = << >>

C7_ModuleInsideProject ==
    /\ exc # "AttributeError"
    /\ exc = "returned" =>
           \A i \in DOMAIN arg :
               LET name == arg[i][1]
                   v == arg[i][2]
               IN  (/\ is_public(name)
                    /\ ismodule(v)
                    /\ ~is_excluded(v, name, _TYPING_CONSTRUCTS))
                   => (name \in Range(result) <=> path_inside(file_attr(v)))

\* C8: after a successful run, new_lines is lines[0..first-1], then the one
\* line "__all__ = " followed by the list literal of the names returned, then
\* lines[last+1..]; its length is len(lines) - (last - first).
C8_Splice ==
    (outcomes # << >> /\ Last(outcomes) = "ok") =>
        LET f == first_definition_line
            l == last_definition_line
            n == Len(lines)
        IN  /\ 0 <= f /\ f < l /\ l < n
            /\ Len(new_lines) = n - (l - f)
            /\ \A i \in 0..(f - 1) : new_lines[i + 1] = lines[i + 1]
            /\ new_lines[f + 1] = declaration_line(result)
            /\ startswith(new_lines[f + 1], STR_ALL_EQ \o << 32, 91 >>)
            /\ Last(new_lines[f + 1]) = 93
            /\ (result = << >> => new_lines[f + 1] = LINE_empty_list)
            /\ \A j \in (l + 1)..(n - 1) : new_lines[j + 1 - (l - f)] = lines[j + 1]
            /\ arg = namespace /\ exc = "returned"

\* a block of two lines replaced by one, with a line before it and a line
\* after it, both kept
C8_Witness ==
    /\ outcomes = << "ok" >>
    /\ first_definition_line = 1
    /\ last_definition_line = 2
    /\ Len(lines) = 4
    /\ Len(new_lines) = 3
    /\ new_lines[1] = LINE_other
    /\ new_lines[3] = LINE_item
    /\ result # << >>

fresh_constructs == filter_constructs(StaticConstructs)

\* C9: every list returned equals the one a process returns on its first call
\* for the same argument; _TYPING_CONSTRUCTS only grows and no call after the
\* first changes it; the namespace is never changed.
C9_HistoryIndependent ==
    /\ [](exc = "returned" => result = sorted(generate(arg, fresh_constructs)))
    /\ [](exc \notin { "none", "returned" } => exc = generate_raises(arg, fresh_constructs))
    /\ [][ /\ _TYPING_CONSTRUCTS \subseteq _TYPING_CONSTRUCTS'
           /\ (calls >= 1 => _TYPING_CONSTRUCTS' = _TYPING_CONSTRUCTS)
           /\ namespace' = namespace ]_vars

\* a second call, on the reversed namespace, after a first call that grew the
\* exclusion set; the type alias the first call added is left out
C9_Witness ==
    /\ calls = 2
    /\ exc = "returned"
    /\ _TYPING_CONSTRUCTS # StaticConstructs
    /\ Len(arg) = 2
    /\ arg # namespace
    /\ arg[1] = << NAME_Chart, "ColorName_alias" >>
    /\ result = << NAME_TYPE_CHECKING >>

\* C10: when the scan finds both boundaries, first < last, lines[first] starts
\* with "__all__ =", lines[last] starts with "]", no line strictly between them
\* starts with "]" or with "__all__ =", no declaration line lies between first
\* and last, and the declaration lines before first are kept by a successful run.
C10_Boundaries ==
    (first_definition_line # None /\ last_definition_line # None) =>
        LET f == first_definition_line
            l == last_definition_line
        IN  /\ 0 <= f /\ f < l /\ l < Len(lines)
            /\ is_declaration(lines[f + 1])
            /\ is_closing(lines[l + 1])
            /\ \A k \in (f + 1)..(l - 1) :
                   ~is_closing(lines[k + 1]) /\ ~is_declaration(lines[k + 1])
            /\ \A i \in 0..l : is_declaration(lines[i + 1]) => i <= f
            /\ (Last(outcomes) = "ok" =>
                    \A i \in 0..(f - 1) : new_lines[i + 1] = lines[i + 1])

\* two declaration lines before the first closing line: the second is the
\* opening boundary and the first is kept
C10_Witness ==
    /\ outcomes = << "ok" >>
    /\ first_definition_line = 1
    /\ last_definition_line = 2
    /\ is_declaration(lines[1])
    /\ new_lines[1] = lines[1]
    /\ is_declaration(new_lines[2])

====
